---- MODULE Spec2Model ----
(***************************************************************************)
(* Playback session of src/main.rs: the Sink struct (player, mixer,        *)
(* sender, track_finished, track_handle, duration_played), its methods,    *)
(* and the completion-watcher tasks that query_track spawns.               *)
(*                                                                         *)
(* Time is counted in whole ticks.  One Tick is one unit of audio pulled   *)
(* by the output device from the player.                                   *)
(***************************************************************************)
EXTENDS Integers, Sequences, FiniteSets

\* ------------------------------------------------------------------ bounds
\* Number of tracks that query_track may accept in one behaviour.
MaxTracks == 2
\* Largest live stream position (ticks) the device is followed to.
MaxPos == 2
\* Number of receivers that track_finished() hands out in one behaviour.
MaxSubs == 1

TrackIds == 1..MaxTracks
SubIds == 1..MaxSubs

\* Decoded sources the caller may pass: sample rate (line 114),
\* total_duration() (line 142) and the number of ticks the source plays.
Files ==
    { [rate |-> 44100, dur |-> 1, len |-> 1],
      [rate |-> 48000, dur |-> 2, len |-> 2] }

NoFile == [rate |-> 0, dur |-> 0, len |-> 0]

\* Option<T>::None for the record-valued fields.
None == [some |-> FALSE]

VARIABLES
    player,          \* Option<rodio::Player>: paused flag, whether the player
                     \* still holds the queue output appended at line 133,
                     \* and the position get_pos() reports
    mixer,           \* Option<rodio::MixerDeviceSink>: configured rate, identity
    sender,          \* Option<Arc<SourcesQueueInput>>: 0 = None, else stream id
    queue,           \* sources pending in the queue behind `sender`, head plays
    track_handle,    \* Option<JoinHandle<()>>: 0 = None, else the track watched
    duration_played, \* Arc<Mutex<Duration>>
    track_finished,  \* watch::Sender<()>: version of the value in the channel
    receivers,       \* the watch::Receiver<()> handed out, by subscriber
    track,           \* per accepted track: the file it was decoded from
    left,            \* per accepted track: ticks of audio not yet played
    signal,          \* per accepted track: state of the append_with_signal channel
    watcher,         \* per accepted track: position of its spawned task
    nTracks,         \* tracks accepted so far
    result,          \* value returned by the last query_track call
    playLog,         \* tracks in the order the sink finished playing them
    cleared,         \* whether clear() or clear_queue() was ever called
    clearMark,       \* tracks accepted before the last clear(); -1 before any
    fault            \* "none", or the unwrap that panicked and ended the process

vars == << player, mixer, sender, queue, track_handle, duration_played,
           track_finished, receivers, track, left, signal, watcher,
           nTracks, result, playLog, cleared, clearMark, fault >>

\* ------------------------------------------------------------ Sink::new
Init ==
    /\ player = None
    /\ mixer = None
    /\ sender = 0
    /\ queue = << >>
    /\ track_handle = 0
    /\ duration_played = 0
    /\ track_finished = 0
    /\ receivers = [s \in SubIds |-> None]
    /\ track = [t \in TrackIds |-> NoFile]
    /\ left = [t \in TrackIds |-> 0]
    /\ signal = [t \in TrackIds |-> "none"]
    /\ watcher = [t \in TrackIds |-> "unspawned"]
    /\ nTracks = 0
    /\ result = "none"
    /\ playLog = << >>
    /\ cleared = FALSE
    /\ clearMark = -1
    /\ fault = "none"

\* ----------------------------------------------------- pure observers
\* watch::Sender::receiver_count: the receiver made by watch::channel at
\* line 34 is dropped at once, so only subscribers count.
receiver_count == Cardinality({s \in SubIds : receivers[s].some})

\* Player::get_pos through Option::map / unwrap_or_default (lines 50-54).
get_pos == IF player.some THEN player.pos ELSE 0

position_unclamped == get_pos - duration_played

\* Sink::position (lines 49-63).
position ==
    IF get_pos < duration_played THEN 0 ELSE get_pos - duration_played

\* Sink::is_empty (lines 105-107).
is_empty == ~player.some

\* ------------------------------------------------- Sink::query_track
\* Lines 114-119: a source fits when no stream is open or the rates agree.
same_sample_rate_always(f) == TRUE

same_sample_rate(f) ==
    IF mixer.some THEN mixer.rate = f.rate ELSE TRUE

\* Line 125.
needs_stream == ~mixer.some \/ ~player.some

\* Lines 128-134: open_default_stream, queue(true), Player::connect_new and
\* player.append(receiver).  The new player runs, holds the queue output and
\* reports position zero.
new_player == [some |-> TRUE, paused |-> FALSE, hasOutput |-> TRUE, pos |-> 0]

new_mixer_default_rate(f) == [some |-> TRUE, rate |-> 44100, id |-> nTracks + 1]

\* A stream is named by the number of the first track queued on it.
new_mixer(f) == [some |-> TRUE, rate |-> f.rate, id |-> nTracks + 1]

append_in_front(q, t) == << t >> \o q

\* SourcesQueueInput::append_with_signal (line 145): behind what is pending.
append_with_signal(q, t) == Append(q, t)

\* Lines 109-161.  The unwraps of lines 110 and 112 succeed here: f is a
\* decoded source.
query_track(f) ==
    /\ fault = "none"
    /\ IF ~same_sample_rate(f)
       THEN /\ result' = "RecreateStreamRequired"
            /\ UNCHANGED << player, mixer, sender, queue, track_handle,
                            duration_played, track_finished, receivers, track,
                            left, signal, watcher, nTracks, playLog,
                            cleared, clearMark, fault >>
       ELSE /\ nTracks < MaxTracks
            /\ LET t == nTracks + 1
                   pending == IF needs_stream THEN << >> ELSE queue
               IN  /\ IF needs_stream
                      THEN /\ player' = new_player
                           /\ sender' = nTracks + 1
                           /\ mixer' = new_mixer(f)
                      ELSE UNCHANGED << player, sender, mixer >>
                   /\ queue' = append_with_signal(pending, t)
                   /\ track' = [track EXCEPT ![t] = f]
                   /\ left' = [left EXCEPT ![t] = f.len]
                   /\ signal' = [signal EXCEPT ![t] = "none"]
                   /\ watcher' = [watcher EXCEPT ![t] = "poll"]
                   /\ track_handle' = t
                   /\ nTracks' = t
                   /\ result' = "Queued"
            /\ UNCHANGED << duration_played, track_finished, receivers, playLog,
                            cleared, clearMark, fault >>

\* ------------------------------------------------ completion watcher
\* The task of lines 147-156.  It runs on the multi-thread runtime of
\* line 217, so the session's methods may run between its steps.
\*   "poll"  inside the loop, before a successful try_recv (sleeping or not)
\*   "add"   try_recv returned Ok, line 150 not yet executed
\*   "send"  line 150 executed, line 151 not yet executed
\*   "done"  left the loop       "panicked"  expect() failed
\*   "aborted"  cancelled by JoinHandle::abort

\* Line 149: try_recv().is_ok() once the queue has signalled the drain.
watcher_poll(t) ==
    /\ fault = "none"
    /\ watcher[t] = "poll"
    /\ signal[t] = "sent"
    /\ signal' = [signal EXCEPT ![t] = "taken"]
    /\ watcher' = [watcher EXCEPT ![t] = "add"]
    /\ UNCHANGED << player, mixer, sender, queue, track_handle,
                    duration_played, track_finished, receivers, track, left,
                    nTracks, result, playLog, cleared, clearMark, fault >>

watcher_add_assign(t) ==
    /\ fault = "none"
    /\ watcher[t] = "add"
    /\ duration_played' = track[t].dur
    /\ watcher' = [watcher EXCEPT ![t] = "send"]
    /\ UNCHANGED << player, mixer, sender, queue, track_handle,
                    track_finished, receivers, track, left, signal,
                    nTracks, result, playLog, cleared, clearMark, fault >>

\* Line 150.
watcher_add(t) ==
    /\ fault = "none"
    /\ watcher[t] = "add"
    /\ duration_played' = duration_played + track[t].dur
    /\ watcher' = [watcher EXCEPT ![t] = "send"]
    /\ UNCHANGED << player, mixer, sender, queue, track_handle,
                    track_finished, receivers, track, left, signal,
                    nTracks, result, playLog, cleared, clearMark, fault >>

\* Lines 151-152.  watch::Sender::send returns Err when no receiver is
\* alive and leaves the value alone; expect() then panics the task.
watcher_send(t) ==
    /\ fault = "none"
    /\ watcher[t] = "send"
    /\ IF receiver_count = 0
       THEN /\ watcher' = [watcher EXCEPT ![t] = "panicked"]
            /\ UNCHANGED track_finished
       ELSE /\ watcher' = [watcher EXCEPT ![t] = "done"]
            /\ track_finished' = track_finished + 1
    /\ UNCHANGED << player, mixer, sender, queue, track_handle,
                    duration_played, receivers, track, left, signal,
                    nTracks, result, playLog, cleared, clearMark, fault >>

\* JoinHandle::abort (line 93): cancels a task at its await point (line
\* 154); a task past a successful try_recv has no await left and finishes.
abort(w, h) ==
    [t \in TrackIds |-> IF t = h /\ w[t] = "poll" THEN "aborted" ELSE w[t]]

\* ------------------------------------------------------ clear_queue
\* Player::clear as called at line 101: the player drops every source it
\* holds, the queue output of line 133 among them, and pauses.
player_clear(p, newPos) ==
    [p EXCEPT !.hasOutput = FALSE, !.paused = TRUE, !.pos = newPos]

\* What get_pos may report after Player::clear: the position kept, or
\* restarted from zero when a source was dropped.
pos_after_clear(p) == IF p.hasOutput THEN {p.pos, 0} ELSE {p.pos}

clear_queue_to_pos ==
    /\ fault = "none"
    /\ duration_played' = get_pos
    /\ IF player.some
       THEN \E newPos \in pos_after_clear(player) :
                player' = player_clear(player, newPos)
       ELSE UNCHANGED player
    /\ cleared' = TRUE
    /\ UNCHANGED << mixer, sender, queue, track_handle, track_finished,
                    receivers, track, left, signal, watcher, nTracks,
                    result, playLog, clearMark, fault >>

\* Lines 97-103.
clear_queue ==
    /\ fault = "none"
    /\ duration_played' = 0
    /\ IF player.some
       THEN \E newPos \in pos_after_clear(player) :
                player' = player_clear(player, newPos)
       ELSE UNCHANGED player
    /\ cleared' = TRUE
    /\ UNCHANGED << mixer, sender, queue, track_handle, track_finished,
                    receivers, track, left, signal, watcher, nTracks,
                    result, playLog, clearMark, fault >>

\* ------------------------------------------------------------ clear
clear_keep_stream ==
    /\ fault = "none"
    /\ duration_played' = 0
    /\ track_handle' = 0
    /\ watcher' = abort(watcher, track_handle)
    /\ cleared' = TRUE
    /\ clearMark' = nTracks
    /\ UNCHANGED << player, mixer, sender, queue, track_finished, receivers,
                    track, left, signal, nTracks, result, playLog, fault >>

clear_keep_sender ==
    /\ fault = "none"
    /\ player' = None
    /\ mixer' = None
    /\ duration_played' = 0
    /\ track_handle' = 0
    /\ watcher' = abort(watcher, track_handle)
    /\ cleared' = TRUE
    /\ clearMark' = nTracks
    /\ UNCHANGED << sender, queue, track_finished, receivers, track, left,
                    signal, nTracks, result, playLog, fault >>

\* Lines 83-95 (clear_queue of line 84 included; Drop, lines 205-209, is
\* the same call).
clear ==
    /\ fault = "none"
    /\ player' = None
    /\ mixer' = None
    /\ sender' = 0
    /\ queue' = << >>
    /\ duration_played' = 0
    /\ track_handle' = 0
    /\ watcher' = abort(watcher, track_handle)
    /\ cleared' = TRUE
    /\ clearMark' = nTracks
    /\ UNCHANGED << track_finished, receivers, track, left, signal, nTracks,
                    result, playLog, fault >>

\* ------------------------------------------------------ play / pause
\* Player::play / Player::pause on a present player, nothing on None.
player_toggle(p) == IF p.some THEN [p EXCEPT !.paused = ~p.paused] ELSE p

player_play(p) == IF p.some THEN [p EXCEPT !.paused = FALSE] ELSE p

player_pause(p) == IF p.some THEN [p EXCEPT !.paused = TRUE] ELSE p

\* Lines 65-69.
play ==
    /\ fault = "none"
    /\ player' = player_play(player)
    /\ UNCHANGED << mixer, sender, queue, track_handle, duration_played,
                    track_finished, receivers, track, left, signal, watcher,
                    nTracks, result, playLog, cleared, clearMark, fault >>

\* Lines 71-75.
pause ==
    /\ fault = "none"
    /\ player' = player_pause(player)
    /\ UNCHANGED << mixer, sender, queue, track_handle, duration_played,
                    track_finished, receivers, track, left, signal, watcher,
                    nTracks, result, playLog, cleared, clearMark, fault >>

\* ------------------------------------------------------------ panics
\* An unwrap that fails on the caller's thread unwinds main (lines
\* 218-230): Drop runs clear() (lines 205-209), the runtime is shut down
\* with its tasks and receivers, and the process exits.  Nothing of the
\* session is left; the state records only which unwrap failed.
panic(kind) ==
    /\ fault' = kind
    /\ player' = None
    /\ mixer' = None
    /\ sender' = 0
    /\ queue' = << >>
    /\ track_handle' = 0
    /\ duration_played' = 0
    /\ track_finished' = 0
    /\ receivers' = [s \in SubIds |-> None]
    /\ track' = [t \in TrackIds |-> NoFile]
    /\ left' = [t \in TrackIds |-> 0]
    /\ signal' = [t \in TrackIds |-> "none"]
    /\ watcher' = [t \in TrackIds |-> "unspawned"]
    /\ nTracks' = 0
    /\ result' = "none"
    /\ playLog' = << >>
    /\ cleared' = FALSE
    /\ clearMark' = -1

\* query_track on a path that File::open or Decoder::try_from rejects
\* (unwrap, lines 110 and 112), or with no output device that opens at
\* the source's rate when a stream is needed (unwrap, line 197).
QueryFailures == {"decode", "device"}

query_track_fails(kind) ==
    /\ fault = "none"
    /\ kind = "device" => needs_stream
    /\ panic(kind)

\* --------------------------------------------------------------- seek
\* Positions the caller may seek to: the start of a source and inside it.
SeekTargets == {0, 1}

\* Player::try_seek returning Ok (line 79): a player that holds no source
\* does nothing; otherwise the queue output seeks its current source (the
\* silence of an empty queue included) and get_pos restarts at d.
try_seek_ok(d) ==
    /\ IF ~player.hasOutput
       THEN UNCHANGED << player, left >>
       ELSE IF queue = << >>
            THEN /\ player' = [player EXCEPT !.pos = d]
                 /\ UNCHANGED left
            ELSE /\ d < track[Head(queue)].len
                 /\ player' = [player EXCEPT !.pos = d]
                 /\ left' = [left EXCEPT
                        ![Head(queue)] = track[Head(queue)].len - d]
    /\ UNCHANGED << mixer, sender, queue, track_handle, duration_played,
                    track_finished, receivers, track, signal, watcher,
                    nTracks, result, playLog, cleared, clearMark, fault >>

\* Lines 77-81.  try_seek returning Err (the source cannot seek, or not to
\* d) is unwrapped at line 79.
seek(d) ==
    /\ fault = "none"
    /\ IF ~player.some
       THEN UNCHANGED vars
       ELSE \/ try_seek_ok(d)
            \/ player.hasOutput /\ panic("seek")

\* ------------------------------------------- completion subscribers
\* Sink::track_finished (lines 45-47): Sender::subscribe.  The receiver
\* starts at the channel's current version; `lost` counts the sends it
\* can no longer observe.  Subscribers take the receiver slots in order.
subscribe(s) ==
    /\ fault = "none"
    /\ ~receivers[s].some
    /\ \A r \in SubIds : r < s => receivers[r].some
    /\ receivers' = [receivers EXCEPT ![s] =
           [some |-> TRUE, seen |-> track_finished, lost |-> 0]]
    /\ UNCHANGED << player, mixer, sender, queue, track_handle,
                    duration_played, track_finished, track, left, signal,
                    watcher, nTracks, result, playLog, cleared,
                    clearMark, fault >>

\* The subscriber checks its receiver (Receiver::changed / has_changed
\* with borrow_and_update): one observation however many sends happened
\* since it last looked, the channel keeping only the latest value.
changed(s) ==
    /\ fault = "none"
    /\ receivers[s].some
    /\ receivers[s].seen # track_finished
    /\ receivers' = [receivers EXCEPT
           ![s].seen = track_finished,
           ![s].lost = @ + (track_finished - receivers[s].seen - 1)]
    /\ UNCHANGED << player, mixer, sender, queue, track_handle,
                    duration_played, track_finished, track, left, signal,
                    watcher, nTracks, result, playLog, cleared,
                    clearMark, fault >>

\* ------------------------------------------------------ the device
\* The output stream pulls one tick of audio from the player: the head of
\* the queue plays, or silence when the queue is empty (queue(true), line
\* 131, keeps the output alive).  A source that plays its last tick is
\* dropped from the queue and its signal is sent.
Tick ==
    /\ fault = "none"
    /\ player.some
    /\ ~player.paused
    /\ player.hasOutput
    /\ player.pos < MaxPos
    /\ player' = [player EXCEPT !.pos = @ + 1]
    /\ IF queue = << >>
       THEN UNCHANGED << queue, left, signal, playLog >>
       ELSE LET t == Head(queue)
            IN  /\ left' = [left EXCEPT ![t] = @ - 1]
                /\ IF left[t] = 1
                   THEN /\ queue' = Tail(queue)
                        /\ signal' = [signal EXCEPT ![t] = "sent"]
                        /\ playLog' = Append(playLog, t)
                   ELSE UNCHANGED << queue, signal, playLog >>
    /\ UNCHANGED << mixer, sender, track_handle, duration_played,
                    track_finished, receivers, track, watcher, nTracks,
                    result, cleared, clearMark, fault >>

\* ------------------------------------------------------------ system
\* Every step is taken by a running process (fault = "none").
Next ==
    \/ \E f \in Files : query_track(f)
    \/ \E kind \in QueryFailures : query_track_fails(kind)
    \/ clear
    \/ clear_queue
    \/ play
    \/ pause
    \/ \E d \in SeekTargets : seek(d)
    \/ \E s \in SubIds : subscribe(s)
    \/ \E s \in SubIds : changed(s)
    \/ \E t \in TrackIds : watcher_poll(t)
    \/ \E t \in TrackIds : watcher_add(t)
    \/ \E t \in TrackIds : watcher_send(t)
    \/ Tick

Spec == Init /\ [][Next]_vars

\* The runtime keeps running every spawned task (its sleep of line 154
\* always ends) and the device keeps pulling audio.
FairSpec ==
    /\ Spec
    /\ \A t \in TrackIds : WF_vars(watcher_poll(t))
    /\ \A t \in TrackIds : WF_vars(watcher_add(t))
    /\ \A t \in TrackIds : WF_vars(watcher_send(t))
    /\ WF_vars(Tick)

\* ------------------------------------------------------------ claims
Max(a, b) == IF a >= b THEN a ELSE b

\* C1: query_track with a source whose sample rate differs from the active
\* stream's returns RecreateStreamRequired and changes nothing: the track
\* is not appended, no watcher is spawned, and player, mixer, sender,
\* track_handle and duration_played are as before the call.
C1_MismatchChangesNothing ==
    [][\A f \in Files :
          (mixer.some /\ mixer.rate # f.rate /\ query_track(f)) =>
              /\ result' = "RecreateStreamRequired"
              /\ UNCHANGED << player, mixer, sender, queue, track_handle,
                              duration_played, watcher, signal, left,
                              nTracks >>]_vars

\* A call was refused while a stream with a pending track was open.
C1_Witness ==
    /\ result = "RecreateStreamRequired"
    /\ mixer.some
    /\ queue # << >>
    /\ track_handle # 0

\* C2: after clear() the session is empty: is_empty() holds, player,
\* mixer, sender and track_handle are absent, duration_played is zero and
\* position() is zero, whatever the state clear() was called in.
C2_ClearResetsToEmpty ==
    [][clear =>
          /\ is_empty'
          /\ player' = None
          /\ mixer' = None
          /\ sender' = 0
          /\ track_handle' = 0
          /\ duration_played' = 0
          /\ position' = 0]_vars

\* clear() ran on an active session whose watcher was alive, and the
\* session is empty.
C2_Witness ==
    /\ clearMark >= 1
    /\ clearMark = nTracks
    /\ is_empty
    /\ \E t \in TrackIds : watcher[t] = "aborted"

\* C3: once clear() has returned, duration_played stays zero until a
\* track queued after that clear() completes: no track queued before it
\* changes the counter.
C3_NoStaleCompletionAfterClear ==
    ( /\ clearMark >= 0
      /\ \A t \in TrackIds :
            t > clearMark => watcher[t] \in {"unspawned", "poll", "add", "aborted"} )
    => duration_played = 0

\* C4: position() is max(0, live position - duration_played): never
\* negative, zero when the live position is behind the counter, zero when
\* no stream is active.
C4_PositionClamped ==
    /\ position >= 0
    /\ player.some => position = Max(0, player.pos - duration_played)
    /\ (player.some /\ player.pos < duration_played) => position = 0
    /\ ~player.some => position = 0

\* The live position is behind the counter, and the counter is not zero.
C4_Witness ==
    /\ player.some
    /\ player.pos < duration_played

\* C5: with no clear in between, once a completion event has fired and
\* every finished track is accounted for, position() is the time played
\* inside the track that is now playing.
C5_PositionInsideCurrentTrack ==
    ( /\ ~cleared
      /\ queue # << >>
      /\ \E t \in TrackIds : watcher[t] = "done"
      /\ \A t \in TrackIds : signal[t] # "none" => watcher[t] = "done" )
    => position = track[Head(queue)].len - left[Head(queue)]

\* What was played followed by what is pending is the order of queuing.
C6_QueuedInOrder ==
    ~cleared => playLog \o queue = [i \in 1..nTracks |-> i]

\* A call at the stream's rate is accepted, opens a stream only when none
\* is open, and leaves the pending tracks where they are.
C6_EveryCallQueues ==
    \A f \in Files :
        (query_track(f) /\ (mixer.some => mixer.rate = f.rate)) =>
            /\ result' = "Queued"
            /\ mixer'.some /\ mixer'.rate = f.rate
            /\ (mixer.some /\ player.some) =>
                   (mixer' = mixer /\ player' = player /\ sender' = sender)
            /\ \A i \in 1..Len(queue) : queue'[i] = queue[i]

\* C6: over query_track calls at one sample rate (no clear in between)
\* every call returns Queued, the first opens the stream and the later
\* ones keep it, and the sink plays the tracks in the order queued;
\* queuing a later track never stops or reorders a pending one.
C6_SameRateSequence ==
    [] C6_QueuedInOrder /\ [][C6_EveryCallQueues]_vars

\* Two tracks queued on one stream were played, first the first.
C6_Witness ==
    /\ ~cleared
    /\ mixer.some /\ mixer.id = 1
    /\ playLog = << 1, 2 >>

C8_KeptStreamPlaysQueuedTrack ==
    [][\A f \in Files :
          (player.some /\ ~player.hasOutput /\ query_track(f)
             /\ result' = "Queued") =>
              (mixer' = mixer /\ player'.some /\ player'.hasOutput)]_vars

\* C9: a receiver observes every completion event sent after it was
\* created: no send is lost to it, also when several tracks complete
\* before it looks.
C9_ReceiverSeesEveryEvent ==
    \A s \in SubIds : receivers[s].some => receivers[s].lost = 0

\* C10: a track completing while the channel has no subscriber is not an
\* error: the watcher ends normally, never by a fault.
C10_NoSubscriberIsNoFault ==
    \A t \in TrackIds : watcher[t] # "panicked"

\* C11: query_track on a path that cannot be opened or decoded returns an
\* error value to the caller and leaves the session as it was, still
\* usable.
C11_DecodeErrorIsReturned ==
    [][query_track_fails("decode") =>
          /\ fault' = "none"
          /\ UNCHANGED << player, mixer, sender, queue, track_handle,
                          duration_played, watcher >>]_vars

\* C12: seek on an active stream whose sink rejects the seek is a
\* recoverable error: the process does not fault; seek on an empty
\* session changes nothing.
C12_SeekFailureIsRecoverable ==
    [][\A d \in SeekTargets : seek(d) =>
          /\ fault' = "none"
          /\ ~player.some => UNCHANGED vars]_vars

\* is_empty() and position() have a value in every state, and play, pause,
\* clear and clear_queue can be called in every state of a running session.
C13_AlwaysCallable ==
    /\ is_empty \in BOOLEAN
    /\ position \in Nat
    /\ fault = "none" =>
           (ENABLED play /\ ENABLED pause /\ ENABLED clear /\ ENABLED clear_queue)

\* None of them faults, play and pause change nothing on an empty
\* session, and a second play (pause) would change nothing.
C13_NoFaultIdempotent ==
    /\ fault' # "none" => ~(play \/ pause \/ clear \/ clear_queue)
    /\ is_empty => ((play \/ pause) => UNCHANGED vars)
    /\ play => player_play(player') = player'
    /\ pause => player_pause(player') = player'

\* C13: play, pause, clear, clear_queue, is_empty and position never fail
\* in any reachable state; play and pause are no-ops on an empty session
\* and idempotent.
C13_TotalOperations ==
    [] C13_AlwaysCallable /\ [][C13_NoFaultIdempotent]_vars

\* play() resumed a player that clear_queue() had paused.
C13_Witness ==
    /\ player.some
    /\ ~player.hasOutput
    /\ ~player.paused

\* Every pending track of an active stream has the stream's sample rate.
C14_QueueAtStreamRate ==
    mixer.some => \A i \in 1..Len(queue) : track[queue[i]].rate = mixer.rate

\* After a refusal, clear() empties the session and keeps the refusal as
\* the last result; query_track on the empty session is accepted and
\* opens the stream at the source's rate.
C14_ClearThenRequeue ==
    /\ (result = "RecreateStreamRequired" /\ clear) =>
           (is_empty' /\ ~mixer'.some /\ result' = result)
    /\ \A f \in Files :
           (is_empty /\ query_track(f)) =>
               /\ result' = "Queued"
               /\ mixer'.some /\ mixer'.rate = f.rate
               /\ player'.some /\ player'.hasOutput
               /\ queue' = << nTracks' >>
               /\ track'[nTracks'] = f

\* C14: after RecreateStreamRequired for a source of rate R, clear()
\* followed by query_track of that source returns Queued with an active
\* stream configured at R; every track accepted onto an active stream has
\* the stream's rate.
C14_RecoveryProtocol ==
    [] C14_QueueAtStreamRate /\ [][C14_ClearThenRequeue]_vars

\* A 44100 track was queued, the session was cleared, and a 48000 track
\* was accepted on a new stream at 48000.
C14_Witness ==
    /\ clearMark = 1
    /\ track[1].rate = 44100
    /\ mixer.some /\ mixer.id = 2 /\ mixer.rate = 48000
    /\ result = "Queued"
    /\ queue = << 2 >>

\* Watcher tasks that have not ended.
Alive == {t \in TrackIds : watcher[t] \in {"poll", "add", "send"}}

\* C15: at most one completion-watcher task is alive at any time.
C15_AtMostOneWatcher ==
    Cardinality(Alive) <= 1

\* Sum of the durations of the tracks in T.
RECURSIVE SumDur(_)
SumDur(T) ==
    IF T = {} THEN 0
    ELSE LET t == CHOOSE x \in T : TRUE
         IN  track[t].dur + SumDur(T \ {t})

\* With no reset, the counter holds the duration of exactly the tracks
\* whose watcher has passed line 150, so of every track whose completion
\* was broadcast.
C16_CounterIncludesCompleted ==
    ~cleared =>
        duration_played =
            SumDur({t \in TrackIds : watcher[t] \in {"send", "done", "panicked"}})

\* A watcher only moves forward: detection, then the addition, then the
\* broadcast, then its end; the channel changes only by the one send of a
\* watcher that has added its duration.
C16_WatcherSteps ==
    /\ \A t \in TrackIds :
           (fault' = "none" /\ watcher'[t] # watcher[t]) =>
               << watcher[t], watcher'[t] >> \in
                   { << "unspawned", "poll" >>, << "poll", "add" >>,
                     << "poll", "aborted" >>, << "add", "send" >>,
                     << "send", "done" >>, << "send", "panicked" >> }
    /\ (fault' = "none" /\ track_finished' # track_finished) =>
           /\ track_finished' = track_finished + 1
           /\ \E t \in TrackIds :
                  watcher[t] = "send" /\ watcher'[t] = "done"
    /\ \A t \in TrackIds :
           (watcher[t] = "add" /\ watcher'[t] = "send") =>
               duration_played' = duration_played + track[t].dur

\* C16: per track the watcher adds the duration at most once and
\* broadcasts at most once, the addition first, and then ends; whoever
\* has seen the completion reads a counter that includes the duration.
C16_AddThenBroadcastOnce ==
    [] C16_CounterIncludesCompleted /\ [][C16_WatcherSteps]_vars

\* Two completions were broadcast and the counter holds both durations.
C16_Witness ==
    /\ ~cleared
    /\ \A t \in 1..2 : watcher[t] = "done"
    /\ duration_played = track[1].dur + track[2].dur
    /\ track_finished = 2

\* C17: player and mixer are both present or both absent, sender is
\* present exactly when they are, and is_empty() holds exactly when all
\* three are absent.
C17_StreamFieldsTogether ==
    /\ player.some <=> mixer.some
    /\ sender # 0 <=> player.some
    /\ is_empty <=> (~player.some /\ ~mixer.some /\ sender = 0)

\* A refused query_track left an active session with all three present.
C17_Witness ==
    /\ result = "RecreateStreamRequired"
    /\ player.some /\ mixer.some /\ sender # 0
    /\ ~is_empty

\* C18: a step that changes duration_played is a watcher's line 150,
\* adding the track's duration, or clear()/clear_queue() (the clear() of
\* Drop at process exit included), setting it to zero; no other
\* operation changes it and it never decreases to a non-zero value.
C18_CounterSteps ==
    [][/\ duration_played' # duration_played =>
              \/ \E t \in TrackIds :
                     /\ watcher_add(t)
                     /\ duration_played' = duration_played + track[t].dur
              \/ /\ duration_played' = 0
                 /\ clear \/ clear_queue \/ fault' # "none"
       /\ duration_played' < duration_played => duration_played' = 0
       /\ duration_played' # duration_played =>
              ~ ( \/ \E f \in Files : query_track(f)
                  \/ play
                  \/ pause
                  \/ \E d \in SeekTargets : seek(d) /\ fault' = "none"
                  \/ \E s \in SubIds : subscribe(s) )]_vars

\* The counter holds a completed track's duration while the next track
\* is pending on the same stream.
C18_Witness ==
    /\ ~cleared
    /\ duration_played > 0
    /\ queue # << >>

\* C19: after clear_queue() the counter stays zero until a track queued
\* after it completes.  While the player holds no queue output no track
\* queued since the clear_queue() can have played, so the counter is
\* zero for as long as the kept stream is in that state.
C19_NoStaleCompletionAfterClearQueue ==
    (player.some /\ ~player.hasOutput) => duration_played = 0

\* C20: every spawned watcher eventually terminates; once clear() has
\* happened, every watcher spawned before it eventually stops polling.
C20_WatchersTerminate ==
    \A t \in TrackIds :
        (fault = "none" /\ clearMark >= t /\ t \in Alive)
            ~> (fault # "none" \/ t \notin Alive)

====
